---------------------------- MODULE Spec2Model ----------------------------
(***************************************************************************)
(* Model of src/app.py, the NYC Green Taxi dashboard: load_data() under    *)
(* @st.cache_data, the sidebar filter, the key metrics and grouped counts, *)
(* the statistical-test filter, the three ANOVA blocks and the chi-square  *)
(* block.  One action is one user interaction: Streamlit re-runs the whole *)
(* script, top to bottom, with the widget values of that moment.           *)
(*                                                                         *)
(* Representation.  A data frame is [columns, rows]; a row is a record     *)
(* with one field per column.  A missing cell is NaN in a numeric column,  *)
(* NaStr in an object column and NaT in a datetime column.  A timestamp is *)
(* [day, hour] of August 2023.  day_of_month and week_of_month become      *)
(* float64 columns as soon as one pickup is NaT; they are held as TWICE    *)
(* their value so that the median of an even number of values (the mean of *)
(* the two middle ones) is exact.                                          *)
(*                                                                         *)
(* Specifications.  filtered_df reads only the sidebar widgets and test_df *)
(* only the three selectors of the Statistical Tests tab, so the two       *)
(* panels are explored one at a time, the other left at its defaults:      *)
(* Spec drives the sidebar, SpecTests the test selectors.  Every run       *)
(* executes the whole script in both.  read_parquet is taken to succeed:   *)
(* when it raises, the run ends at line 81, before any widget exists.      *)
(***************************************************************************)
EXTENDS Integers, Sequences, FiniteSets, TLC

VARIABLES source, cache, reads, ran, df, sel, tsel, filtered_df, test_df, out

vars == <<source, cache, reads, ran, df, sel, tsel, filtered_df, test_df, out>>

\* Longest source table the specifications explore.
MaxRows == 2

-----------------------------------------------------------------------------
(* Missing values *)

NaN == -1000000
NaStr == "NaN"
NaT == [day |-> 0, hour |-> 0]

\* Value of a variable the script has not assigned yet.
Unset == [columns |-> {}, rows |-> <<>>]

-----------------------------------------------------------------------------
(* Fixed option lists of the script *)

week_options == <<"All Weeks", "1st Week", "2nd Week", "3rd Week", "4th Week", "5th Week">>
weekday_options == <<"Monday", "Tuesday", "Wednesday", "Thursday", "Friday", "Saturday", "Sunday">>
payment_options == <<"Credit Card", "Cash", "No Charge">>
trip_type_options == <<"Street-hail", "Dispatch">>

Range(s) == {s[i] : i \in 1..Len(s)}

-----------------------------------------------------------------------------
(* The source file: rows of green_tripdata_2023-08.parquet *)

Stamp(d, h) == [day |-> d, hour |-> h]

RawRow(pu, do, pc, pt, tt, dist, fare, total) ==
    [lpep_pickup_datetime |-> pu, lpep_dropoff_datetime |-> do,
     passenger_count |-> pc, payment_type |-> pt, trip_type |-> tt,
     trip_distance |-> dist, fare_amount |-> fare, total_amount |-> total]

SourceRows ==
    { RawRow(Stamp(7, 23),  Stamp(8, 0),   1, 1, 1, 2, 8,  10),
      RawRow(Stamp(8, 9),   Stamp(8, 10),  1, 2, 2, 5, 18, 20),
      RawRow(Stamp(14, 0),  Stamp(14, 0),  2, 1, 2, 1, 25, 30),
      RawRow(NaT,           Stamp(8, 0),   1, 5, 1, 3, 12, 15) }

RawColumns == {"lpep_pickup_datetime", "lpep_dropoff_datetime", "passenger_count",
               "payment_type", "trip_type", "trip_distance", "fare_amount",
               "total_amount"}

\* The tables of one to n distinct trips, in every row order.
Tables(n) ==
    {t \in UNION {[1..k -> SourceRows] : k \in 1..n} :
       \A i, j \in DOMAIN t : i # j => t[i] # t[j]}

\* A row without the given columns.
DropFields(r, cols) == [c \in (DOMAIN r) \ cols |-> r[c]]

DropColumns(d, cols) ==
    [columns |-> d.columns \ cols,
     rows |-> [i \in 1..Len(d.rows) |-> DropFields(d.rows[i], cols)]]

\* The files the session may find: with or without the trip_type column.
SourceFiles ==
    LET full(t) == [columns |-> RawColumns, rows |-> t]
    IN  {full(t) : t \in Tables(MaxRows)}
        \cup {DropColumns(full(t), {"trip_type"}) : t \in Tables(MaxRows)}

-----------------------------------------------------------------------------
(* pandas helpers *)

DatetimeCols == {"lpep_pickup_datetime", "lpep_dropoff_datetime"}
ObjectCols == {"weekday", "week_name", "payment_type_name", "trip_type_name"}

\* The missing value of a column, by its dtype.
NaOf(c) == IF c \in DatetimeCols THEN NaT ELSE IF c \in ObjectCols THEN NaStr ELSE NaN

\* df[c] = values: adds or replaces a column, one value per row.
SetColumn(d, c, values) ==
    [columns |-> d.columns \cup {c},
     rows |-> [i \in 1..Len(d.rows) |-> (c :> values[i]) @@ d.rows[i]]]

\* The values of a column, in row order.
Column(d, c) == [i \in 1..Len(d.rows) |-> d.rows[i][c]]

\* Series.map(mapping): a key outside the mapping, NaN included, gives NaN.
MapValue(mapping, key) == IF key \in DOMAIN mapping THEN mapping[key] ELSE NaStr

MapColumn(d, c, mapping) == [i \in 1..Len(d.rows) |-> MapValue(mapping, d.rows[i][c])]

RECURSIVE SortInts(_)
SortInts(xs) ==
    IF xs = <<>> THEN <<>>
    ELSE LET m == CHOOSE i \in 1..Len(xs) : \A j \in 1..Len(xs) : xs[i] <= xs[j]
             rest == [k \in 1..(Len(xs) - 1) |-> IF k < m THEN xs[k] ELSE xs[k + 1]]
         IN  <<xs[m]>> \o SortInts(rest)

\* Series.median(): NaN is skipped; the middle value, or the mean of the two
\* middle values; NaN when no value is left.
Median(xs) ==
    LET s == SortInts(SelectSeq(xs, LAMBDA x : x # NaN))
        n == Len(s)
    IN  IF n = 0 THEN NaN
        ELSE IF n % 2 = 1 THEN s[(n + 1) \div 2]
        ELSE (s[n \div 2] + s[(n \div 2) + 1]) \div 2

\* The columns df.median(numeric_only=True) covers.
NumericCols(d) == d.columns \ (DatetimeCols \cup ObjectCols)

\* df.fillna(df.median(numeric_only=True), inplace=True)
FillNaMedian(d) ==
    [columns |-> d.columns,
     rows |-> [i \in 1..Len(d.rows) |->
                 [c \in d.columns |->
                    IF c \in NumericCols(d) /\ d.rows[i][c] = NaN
                    THEN Median(Column(d, c)) ELSE d.rows[i][c]]]]

\* df.fillna(method='ffill', inplace=True): every column, top to bottom, takes
\* the last valid value above a missing cell; a leading missing cell stays.
FFill(d) ==
    LET F[i \in 0..Len(d.rows)] ==
          IF i = 0 THEN <<>>
          ELSE Append(F[i - 1],
                      [c \in d.columns |->
                         IF d.rows[i][c] = NaOf(c) /\ i > 1
                         THEN F[i - 1][i - 1][c] ELSE d.rows[i][c]])
    IN  [columns |-> d.columns, rows |-> F[Len(d.rows)]]

-----------------------------------------------------------------------------
(* load_data *)

\* .dt.day_name() of a day of August 2023 (the 7th is a Monday).
DayName(t) == IF t = NaT THEN NaStr ELSE weekday_options[(t.day % 7) + 1]

\* (dropoff - pickup).dt.total_seconds() / 60
TripDuration(r) ==
    IF r.lpep_pickup_datetime = NaT \/ r.lpep_dropoff_datetime = NaT THEN NaN
    ELSE ((r.lpep_dropoff_datetime.day - r.lpep_pickup_datetime.day) * 24
          + (r.lpep_dropoff_datetime.hour - r.lpep_pickup_datetime.hour)) * 60

HourOfDay(r) == IF r.lpep_dropoff_datetime = NaT THEN NaN ELSE r.lpep_dropoff_datetime.hour

\* .dt.day of the pickup, held doubled.
DayOfMonth(r) == IF r.lpep_pickup_datetime = NaT THEN NaN ELSE 2 * r.lpep_pickup_datetime.day

\* ((day_of_month - 1) // 7) + 1, on doubled values.
WeekOfMonth(r) ==
    IF r.day_of_month = NaN THEN NaN ELSE 2 * (((r.day_of_month - 2) \div 14) + 1)

week_mapping == (2 :> "1st Week") @@ (4 :> "2nd Week") @@ (6 :> "3rd Week")
                @@ (8 :> "4th Week") @@ (10 :> "5th Week")

payment_mapping == (1 :> "Credit Card") @@ (2 :> "Cash") @@ (3 :> "No Charge")

trip_type_mapping == (1 :> "Street-hail") @@ (2 :> "Dispatch")

\* Faulty variant: the column is added whether or not trip_type exists.
AddTripTypeNameAlways(d) ==
    SetColumn(d, "trip_type_name",
              [i \in 1..Len(d.rows) |->
                 IF "trip_type" \in d.columns
                 THEN MapValue(trip_type_mapping, d.rows[i].trip_type) ELSE NaStr])

\* if 'trip_type' in df.columns: df['trip_type_name'] = df['trip_type'].map(...)
AddTripTypeName(d) ==
    IF "trip_type" \in d.columns
    THEN SetColumn(d, "trip_type_name", MapColumn(d, "trip_type", trip_type_mapping))
    ELSE d

\* The body of load_data, applied to what read_parquet returned.
Normalize(raw) ==
    LET d1 == DropColumns(raw, {"ehail_fee", "fare_amount"})
        n  == Len(raw.rows)
        d2 == SetColumn(d1, "trip_duration", [i \in 1..n |-> TripDuration(d1.rows[i])])
        d3 == SetColumn(d2, "weekday",
                        [i \in 1..n |-> DayName(d2.rows[i].lpep_dropoff_datetime)])
        d4 == SetColumn(d3, "hourofday", [i \in 1..n |-> HourOfDay(d3.rows[i])])
        d5 == SetColumn(d4, "day_of_month", [i \in 1..n |-> DayOfMonth(d4.rows[i])])
        d6 == SetColumn(d5, "week_of_month", [i \in 1..n |-> WeekOfMonth(d5.rows[i])])
        d7 == SetColumn(d6, "week_name", MapColumn(d6, "week_of_month", week_mapping))
        d8 == FFill(FillNaMedian(d7))
        d9 == SetColumn(d8, "payment_type_name",
                        MapColumn(d8, "payment_type", payment_mapping))
    IN  AddTripTypeName(d9)

-----------------------------------------------------------------------------
(* More pandas helpers, used by the script body *)

\* frame[frame[c] == v]: a new frame with the rows whose cell equals v, in
\* order (a missing cell equals no selection); the operand is untouched.
WhereEq(d, c, v) ==
    [columns |-> d.columns, rows |-> SelectSeq(d.rows, LAMBDA r : r[c] = v)]

\* The distinct valid values of a column.
Present(d, c) == {d.rows[i][c] : i \in 1..Len(d.rows)} \ {NaOf(c)}

RECURSIVE SortSet(_)
SortSet(S) ==
    IF S = {} THEN <<>>
    ELSE LET m == CHOOSE x \in S : \A y \in S : x <= y
         IN  <<m>> \o SortSet(S \ {m})

\* sorted(df[c].unique().tolist())
SortedUnique(d, c) == SortSet({d.rows[i][c] : i \in 1..Len(d.rows)})

\* Series.value_counts(): one entry per value that occurs; NaN is dropped.
ValueCounts(d, c) ==
    [v \in Present(d, c) |-> Cardinality({i \in 1..Len(d.rows) : d.rows[i][c] = v})]

\* Series.reindex(index): the entries in the order of index; a label the
\* series does not hold gets NaN.
Reindex(series, index) ==
    [k \in 1..Len(index) |->
       [index |-> index[k],
        value |-> IF index[k] \in DOMAIN series THEN series[index[k]] ELSE NaN]]

RECURSIVE SumSeq(_)
SumSeq(xs) == IF xs = <<>> THEN 0 ELSE Head(xs) + SumSeq(Tail(xs))

\* Series.mean(): NaN is skipped; the mean of no value is NaN (here 0/0).
Mean(xs) ==
    LET v == SelectSeq(xs, LAMBDA x : x # NaN)
    IN  [num |-> SumSeq(v), den |-> Len(v)]

\* f"{x:.2f}": the text "nan" for NaN, the number otherwise (kept exact).
Format2f(m) == IF m.den = 0 THEN "nan" ELSE ToString(m.num) \o "/" \o ToString(m.den)

\* [g['total_amount'] for _, g in frame.groupby(c)]: one series per value of
\* c that occurs (rows whose key is NaN belong to no group), in key order.
GroupBy(d, c) ==
    [v \in Present(d, c) |->
       Column(WhereEq(d, c, v), "total_amount")]

\* pd.crosstab(frame[a], frame[b]): counts over the rows where both are valid;
\* the index and the columns are the values that occur in those rows.
Crosstab(d, a, b) ==
    LET both == [columns |-> d.columns,
                 rows |-> SelectSeq(d.rows, LAMBDA r : r[a] # NaOf(a) /\ r[b] # NaOf(b))]
    IN  [index |-> Present(both, a), columns |-> Present(both, b),
         counts |-> [x \in Present(both, a) \X Present(both, b) |->
                       Len(SelectSeq(both.rows, LAMBDA r : r[a] = x[1] /\ r[b] = x[2]))]]

Shape(table) == <<Cardinality(table.index), Cardinality(table.columns)>>

-----------------------------------------------------------------------------
(* The script body, top to bottom *)

\* selected_trip_type when the trip type selectbox was not created.
NoSelection == "(undefined)"

HasTripTypeName(d) == "trip_type_name" \in d.columns

passenger_options(d) == SortedUnique(d, "passenger_count")
hour_options(d) == SortedUnique(d, "hourofday")

\* The selectors of the Statistical Tests tab start at 'All' (index 0).
DefaultTestSel == [weekday |-> "All", payment |-> "All", week |-> "All"]

\* Faulty variant: the last mask (hourofday) is left out.
MainFilterSkipsHour(d, s) ==
    LET f0 == d
        f1 == IF s.week # "All Weeks"
              THEN WhereEq(f0, "week_name", s.week) ELSE f0
        f2 == WhereEq(f1, "weekday", s.weekday)
        f3 == WhereEq(f2, "payment_type_name", s.payment)
        f4 == WhereEq(f3, "passenger_count", s.passenger)
    IN  IF HasTripTypeName(d)
        THEN WhereEq(f4, "trip_type_name", s.trip_type) ELSE f4

\* Lines 135-150: filtered_df.
MainFilter(d, s) ==
    LET f0 == d
        f1 == IF s.week # "All Weeks"
              THEN WhereEq(f0, "week_name", s.week) ELSE f0
        f2 == WhereEq(f1, "weekday", s.weekday)
        f3 == WhereEq(f2, "payment_type_name", s.payment)
        f4 == WhereEq(f3, "passenger_count", s.passenger)
        f5 == IF HasTripTypeName(d)
              THEN WhereEq(f4, "trip_type_name", s.trip_type) ELSE f4
    IN  WhereEq(f5, "hourofday", s.hour)

\* Faulty variant: the masks are applied to df itself (df = df[...]).
ApplyFiltersInPlace(d, s) == [df |-> MainFilter(d, s), filtered_df |-> MainFilter(d, s)]

\* The script's globals after lines 135-150: df is read, filtered_df is bound.
ApplyFilters(d, s) == [df |-> d, filtered_df |-> MainFilter(d, s)]

\* Faulty variant: the weekday selection is not applied.
TestFilterSkipsWeekday(d, t) ==
    LET t2 == IF t.payment # "All"
              THEN WhereEq(d, "payment_type_name", t.payment) ELSE d
    IN  IF t.week # "All" THEN WhereEq(t2, "week_name", t.week) ELSE t2

\* Lines 319-326: test_df.
TestFilter(d, t) ==
    LET t0 == d
        t1 == IF t.weekday # "All"
              THEN WhereEq(t0, "weekday", t.weekday) ELSE t0
        t2 == IF t.payment # "All"
              THEN WhereEq(t1, "payment_type_name", t.payment) ELSE t1
    IN  IF t.week # "All" THEN WhereEq(t2, "week_name", t.week) ELSE t2

ApplyTestFilters(d, t) == [df |-> d, test_df |-> TestFilter(d, t)]

\* Lines 156-161: the four key metrics.
KeyMetrics(f) ==
    [total_trips |-> Len(f.rows),
     avg_distance |-> Format2f(Mean(Column(f, "trip_distance"))) \o " miles",
     avg_duration |-> Format2f(Mean(Column(f, "trip_duration"))) \o " mins",
     avg_amount |-> "$" \o Format2f(Mean(Column(f, "total_amount")))]

\* Line 178: weekday_counts.
WeekdayCounts(f) == Reindex(ValueCounts(f, "weekday"), weekday_options)

SampleCap == 1000

\* Faulty variant: sample(1000) without the min.
SampleSizeUncapped(n) == SampleCap

\* Line 202: the size handed to DataFrame.sample.
SampleSize(n) == IF SampleCap < n THEN SampleCap ELSE n

\* DataFrame.sample(k), without replacement: raises ValueError when k exceeds
\* the number of rows; which rows it returns is not recorded.
Sample(f, k) ==
    IF k > Len(f.rows) THEN [raised |-> TRUE, n |-> 0] ELSE [raised |-> FALSE, n |-> k]

\* The guard and the two branches of an ANOVA block; the warning of the trip
\* type block carries no count, those of the weekday and week blocks do.
Anova(groups, with_count) ==
    IF Cardinality(DOMAIN groups) >= 2 /\ \A k \in DOMAIN groups : Len(groups[k]) > 0
    THEN [status |-> "statistic", groups |-> Cardinality(DOMAIN groups), found |-> <<>>]
    ELSE [status |-> "cannot perform", groups |-> 0,
          found |-> IF with_count THEN <<Cardinality(DOMAIN groups)>> ELSE <<>>]

\* An output of a block the script does not enter.
Skipped == [status |-> "skipped", groups |-> 0, found |-> <<>>]
SkippedChi == [status |-> "skipped", shape |-> <<0, 0>>]

\* Lines 333-346.
AnovaTripType(t) ==
    IF HasTripTypeName(t) THEN Anova(GroupBy(t, "trip_type_name"), FALSE) ELSE Skipped

\* Lines 348-360.
AnovaWeekday(t) == Anova(GroupBy(t, "weekday"), TRUE)

\* Lines 362-374.
AnovaWeek(t) == Anova(GroupBy(t, "week_name"), TRUE)

\* Faulty variant: only the number of rows is guarded.
ChiSquareRowsOnly(table) ==
    IF Shape(table)[1] >= 2
    THEN [status |-> "statistic", shape |-> Shape(table)]
    ELSE [status |-> "cannot perform", shape |-> Shape(table)]

\* Lines 385-395: the shape guard and the two branches.
ChiSquare(table) ==
    IF Shape(table)[1] >= 2 /\ Shape(table)[2] >= 2
    THEN [status |-> "statistic", shape |-> Shape(table)]
    ELSE [status |-> "cannot perform", shape |-> Shape(table)]

\* Lines 376-395.
ChiSquareBlock(t) ==
    IF HasTripTypeName(t)
    THEN ChiSquare(Crosstab(t, "trip_type_name", "payment_type_name"))
    ELSE SkippedChi

\* What one run of the script renders.  An exception ends the run where it
\* is raised: nothing below that line is rendered.
NotRendered == [status |-> "not rendered", groups |-> 0, found |-> <<>>]
NotRenderedChi == [status |-> "not rendered", shape |-> <<0, 0>>]

Render(f, t) ==
    LET sample == Sample(f, SampleSize(Len(f.rows)))
    IN  [metrics |-> KeyMetrics(f),
         weekday_counts |-> WeekdayCounts(f),
         sample_n |-> sample.n,
         raised |-> sample.raised,
         anova_trip_type |-> IF sample.raised THEN NotRendered ELSE AnovaTripType(t),
         anova_weekday |-> IF sample.raised THEN NotRendered ELSE AnovaWeekday(t),
         anova_week |-> IF sample.raised THEN NotRendered ELSE AnovaWeek(t),
         chi_square |-> IF sample.raised THEN NotRenderedChi ELSE ChiSquareBlock(t)]

NothingRendered ==
    [metrics |-> [total_trips |-> 0, avg_distance |-> "", avg_duration |-> "",
                  avg_amount |-> ""],
     weekday_counts |-> <<>>, sample_n |-> 0, raised |-> FALSE,
     anova_trip_type |-> NotRendered, anova_weekday |-> NotRendered,
     anova_week |-> NotRendered, chi_square |-> NotRenderedChi]

-----------------------------------------------------------------------------
(* The session *)

\* The cache of @st.cache_data before the first call.
Empty == <<>>

Init ==
    /\ source \in SourceFiles
    /\ cache = Empty
    /\ reads = 0
    /\ ran = FALSE
    /\ df = Unset
    /\ sel = [week |-> NoSelection, weekday |-> NoSelection, payment |-> NoSelection,
              passenger |-> NaN, trip_type |-> NoSelection, hour |-> NaN]
    /\ tsel = DefaultTestSel
    /\ filtered_df = Unset
    /\ test_df = Unset
    /\ out = NothingRendered

\* Faulty variant: load_data without the decorator.
CacheNever(c) == FALSE

\* @st.cache_data: the function body runs only when the cache holds no value.
CacheHit(c) == c # Empty

\* What each sidebar selectbox returns: the value the user last chose, or
\* options[0] (index=0) while the user has not touched it.
WidgetValues(w, d) ==
    [week |-> IF w.week = NoSelection THEN week_options[1] ELSE w.week,
     weekday |-> IF w.weekday = NoSelection THEN weekday_options[1] ELSE w.weekday,
     payment |-> IF w.payment = NoSelection THEN payment_options[1] ELSE w.payment,
     passenger |-> IF w.passenger = NaN THEN passenger_options(d)[1] ELSE w.passenger,
     trip_type |-> IF ~HasTripTypeName(d) THEN NoSelection
                   ELSE IF w.trip_type = NoSelection THEN trip_type_options[1]
                   ELSE w.trip_type,
     hour |-> IF w.hour = NaN THEN hour_options(d)[1] ELSE w.hour]

\* One run of the script with the widget state w and t: load_data(), the
\* sidebar filter, the metrics and charts, the test filter and the tests.
Run(w, t) ==
    /\ cache' = IF CacheHit(cache) THEN cache ELSE <<Normalize(source)>>
    /\ reads' = IF CacheHit(cache) THEN reads ELSE reads + 1
    /\ ran' = TRUE
    /\ sel' = WidgetValues(w, cache'[1])
    /\ tsel' = t
    /\ \E e1 \in {ApplyFilters(cache'[1], sel')} :
         /\ filtered_df' = e1.filtered_df
         /\ \E e2 \in {ApplyTestFilters(e1.df, tsel')} :
              /\ test_df' = e2.test_df
              /\ df' = e2.df
    /\ out' = Render(filtered_df', test_df')
    /\ UNCHANGED source

\* The session opens: the first run, no widget touched yet.
FirstRun ==
    /\ ~ran
    /\ Run(sel, tsel)

SelectWeek ==
    /\ ran
    /\ \E v \in Range(week_options) \ {sel.week} : Run([sel EXCEPT !.week = v], tsel)

SelectWeekday ==
    /\ ran
    /\ \E v \in Range(weekday_options) \ {sel.weekday} :
         Run([sel EXCEPT !.weekday = v], tsel)

SelectPayment ==
    /\ ran
    /\ \E v \in Range(payment_options) \ {sel.payment} :
         Run([sel EXCEPT !.payment = v], tsel)

SelectPassenger ==
    /\ ran
    /\ \E v \in Range(passenger_options(df)) \ {sel.passenger} :
         Run([sel EXCEPT !.passenger = v], tsel)

SelectTripType ==
    /\ ran
    /\ HasTripTypeName(df)
    /\ \E v \in Range(trip_type_options) \ {sel.trip_type} :
         Run([sel EXCEPT !.trip_type = v], tsel)

SelectHour ==
    /\ ran
    /\ \E v \in Range(hour_options(df)) \ {sel.hour} : Run([sel EXCEPT !.hour = v], tsel)

SelectTestWeekday ==
    /\ ran
    /\ \E v \in ({"All"} \cup Range(weekday_options)) \ {tsel.weekday} :
         Run(sel, [tsel EXCEPT !.weekday = v])

SelectTestPayment ==
    /\ ran
    /\ \E v \in ({"All"} \cup Range(payment_options)) \ {tsel.payment} :
         Run(sel, [tsel EXCEPT !.payment = v])

SelectTestWeek ==
    /\ ran
    /\ \E v \in ({"All"} \cup Range(Tail(week_options))) \ {tsel.week} :
         Run(sel, [tsel EXCEPT !.week = v])

\* The sidebar: the interactions that drive filtered_df.
Next ==
    \/ FirstRun
    \/ SelectWeek
    \/ SelectWeekday
    \/ SelectPayment
    \/ SelectPassenger
    \/ SelectTripType
    \/ SelectHour

Spec == Init /\ [][Next]_vars

\* The selectors of the Statistical Tests tab: the interactions that drive test_df.
NextTests ==
    \/ FirstRun
    \/ SelectTestWeekday
    \/ SelectTestPayment
    \/ SelectTestWeek

SpecTests == Init /\ [][NextTests]_vars

-----------------------------------------------------------------------------
(* Properties *)

\* How often a row occurs in a frame.
Occurrences(d, r) == Cardinality({i \in 1..Len(d.rows) : d.rows[i] = r})

\* A row satisfies every predicate the sidebar currently supplies.
Matches(r, s, with_trip_type) ==
    /\ r.weekday = s.weekday
    /\ r.payment_type_name = s.payment
    /\ r.passenger_count = s.passenger
    /\ r.hourofday = s.hour
    /\ with_trip_type => r.trip_type_name = s.trip_type
    /\ s.week # "All Weeks" => r.week_name = s.week

\* C1: after any sequence of sidebar changes, filtered_df holds exactly the
\* rows of the base dataset that satisfy all the predicates of the current
\* selection (trip type only when the column exists, week unless "All Weeks"),
\* each as often as the base dataset holds it, and nothing else.
C1_FilteredIsExactlyTheMatchingRows ==
    ran =>
      /\ filtered_df.columns = df.columns
      /\ \A r \in Range(df.rows) \cup Range(filtered_df.rows) :
           Occurrences(filtered_df, r) =
             IF Matches(r, sel, HasTripTypeName(df)) THEN Occurrences(df, r) ELSE 0

C1_Witness ==
    /\ ran
    /\ sel.week # "All Weeks"
    /\ sel.weekday # weekday_options[1]
    /\ filtered_df.rows # <<>>
    /\ Len(filtered_df.rows) < Len(df.rows)

\* C2: once loaded, the base dataset never changes: after every run df is
\* the frame load_data() produced on the first call, whatever was filtered,
\* aggregated or sampled.
C2_BaseDatasetUnchanged ==
    ran => /\ df = cache[1]
           /\ Len(df.rows) = Len(source.rows)

C2_Witness ==
    /\ ran
    /\ sel.payment # payment_options[1]
    /\ filtered_df.rows = <<>>
    /\ Len(test_df.rows) = Len(source.rows)

\* C3: over any sequence of interactions the file is read and normalised at
\* most once: the first run loads, every later run is served from the cache.
C3_LoadedAtMostOnce ==
    /\ reads <= 1
    /\ ran => (reads = 1 /\ cache # Empty)

C3_Witness ==
    /\ reads = 1
    /\ sel.week = "2nd Week"
    /\ sel.weekday = "Tuesday"
    /\ sel.payment = "Cash"

\* C4: for every row of the loaded dataset, imputed rows included,
\* week_of_month = ((day_of_month - 1) // 7) + 1 and week_name is the ordinal
\* label of that week for the weeks 1 to 5 (both columns are held doubled).
C4_WeekIsAFunctionOfDay ==
    ran =>
      \A r \in Range(df.rows) :
        /\ r.day_of_month # NaN =>
             r.week_of_month = 2 * (((r.day_of_month - 2) \div 14) + 1)
        /\ r.week_of_month \in DOMAIN week_mapping =>
             r.week_name = week_mapping[r.week_of_month]

\* One ANOVA output obeys the guard of the claim for the n categories that
\* have an observation.
AnovaAsClaimed(result, n) ==
    /\ result.status = "statistic" <=> n >= 2
    /\ n < 2 => (result.status = "cannot perform" /\ result.found = <<n>>)

\* C5: for each of the three ANOVA groupings and every test subset, a
\* statistic is reported iff at least two categories have an observation;
\* otherwise a "cannot perform" status carrying the count of groups is.
C5_AnovaGuardWithCount ==
    ran =>
      /\ HasTripTypeName(test_df) =>
           AnovaAsClaimed(out.anova_trip_type,
                          Cardinality(Present(test_df, "trip_type_name")))
      /\ AnovaAsClaimed(out.anova_weekday, Cardinality(Present(test_df, "weekday")))
      /\ AnovaAsClaimed(out.anova_week, Cardinality(Present(test_df, "week_name")))

\* The trip types and payment types that occur together in the test subset.
PairsInTestSubset ==
    {<<test_df.rows[i].trip_type_name, test_df.rows[i].payment_type_name>> :
       i \in {j \in 1..Len(test_df.rows) :
                /\ test_df.rows[j].trip_type_name # NaStr
                /\ test_df.rows[j].payment_type_name # NaStr}}

\* C6: when trip type exists, the chi-square statistic is computed iff the
\* trip type x payment type table of the test subset has at least two rows
\* and two columns; any other table gives "cannot perform" with its shape.
C6_ChiSquareShapeGuard ==
    (ran /\ HasTripTypeName(df)) =>
      LET nrows == Cardinality({p[1] : p \in PairsInTestSubset})
          ncols == Cardinality({p[2] : p \in PairsInTestSubset})
      IN  /\ out.chi_square.status = "statistic" <=> (nrows >= 2 /\ ncols >= 2)
          /\ out.chi_square.status \in {"statistic", "cannot perform"}
          /\ out.chi_square.shape = <<nrows, ncols>>

C6_Witness ==
    /\ ran
    /\ tsel.payment # "All"
    /\ out.chi_square.status = "cannot perform"
    /\ out.chi_square.shape = <<2, 1>>

\* C7: the grouped trip counts per weekday have seven entries, Monday to
\* Sunday, and a weekday without rows in the subset shows the number 0.
C7_WeekdayCountsShowZero ==
    ran =>
      /\ Len(out.weekday_counts) = 7
      /\ \A k \in 1..Len(out.weekday_counts) :
           /\ out.weekday_counts[k].index = weekday_options[k]
           /\ out.weekday_counts[k].value =
                Cardinality({i \in 1..Len(filtered_df.rows) :
                               filtered_df.rows[i].weekday = weekday_options[k]})

C9_MissingTripTypeDisablesOnlyTripType ==
    (ran /\ "trip_type" \notin source.columns) =>
      /\ "trip_type_name" \notin df.columns
      /\ sel.trip_type = NoSelection
      /\ \A r \in Range(df.rows) :
           Occurrences(filtered_df, r) =
             IF Matches(r, sel, FALSE) THEN Occurrences(df, r) ELSE 0
      /\ out.anova_trip_type.status = "skipped"
      /\ out.chi_square.status = "skipped"
      /\ out.anova_weekday.status \in {"statistic", "cannot perform"}
      /\ out.anova_week.status \in {"statistic", "cannot perform"}
      /\ ~out.raised
      /\ out.metrics.total_trips = Len(filtered_df.rows)

C9_Witness ==
    /\ ran
    /\ "trip_type" \notin source.columns
    /\ filtered_df.rows # <<>>
    /\ out.anova_weekday.status = "statistic"

\* C10, as claimed: a specific selection in the test filter disables the
\* test over that dimension, and each of the three reports "cannot perform"
\* for every dataset.
C10_SpecificSelectionReportsCannotPerform ==
    ran =>
      /\ tsel.weekday # "All" => out.anova_weekday.status = "cannot perform"
      /\ tsel.week # "All" => out.anova_week.status = "cannot perform"
      /\ tsel.payment # "All" => out.chi_square.status = "cannot perform"

\* C10, amended: a specific weekday or week makes the ANOVA over it report
\* "cannot perform" for every dataset; a specific payment type means the
\* chi-square statistic is never computed: "cannot perform" is reported when
\* the dataset has the trip type column, and nothing when it has not.
C10_SpecificSelectionDisablesTest ==
    ran =>
      /\ tsel.weekday # "All" => out.anova_weekday.status = "cannot perform"
      /\ tsel.week # "All" => out.anova_week.status = "cannot perform"
      /\ tsel.payment # "All" =>
           out.chi_square.status =
             IF HasTripTypeName(df) THEN "cannot perform" ELSE "skipped"

C10_Witness ==
    /\ ran
    /\ tsel.weekday # "All"
    /\ tsel.week # "All"
    /\ tsel.payment # "All"
    /\ HasTripTypeName(df)
    /\ test_df.rows # <<>>

=============================================================================
